---- MODULE Spec2Model ----
(***************************************************************************)
(* The bulk message dispatcher of backend/main.py: the submit endpoint     *)
(* send_messages (POST /api/send-messages) and the background coroutine    *)
(* send_messages_task.  A run is one execution of send_messages_task for   *)
(* one submitted MessageSendConfig.  Runs interleave on the event loop at  *)
(* their two await points: client.post(...) and asyncio.sleep(...).        *)
(*                                                                         *)
(* page_id, access_token and message_text are copied unchanged into every  *)
(* request and never read by the loop's control flow; the model keeps the  *)
(* fields the loop reads: recipient_ids, delay_between_messages,           *)
(* batch_size, batch_delay.                                                *)
(***************************************************************************)
EXTENDS Integers, Sequences, FiniteSets

(* ------------------------------ bounds --------------------------------- *)

\* longest recipient list of a job submitted on its own
MaxRecipients == 3

\* largest batch_size of a job submitted on its own
MaxBatch == 2

\* longest recipient list of a job submitted next to another one
MaxConcRecipients == 2

(* ------------------------- program constants --------------------------- *)

\* MessageSendConfig.delay_between_messages default
DefaultDelay == 5

\* MessageSendConfig.batch_delay default
DefaultBatchDelay == 30

\* the status code send_messages_task counts as a success
HTTP_OK == 200

(* ------------------------------ inputs --------------------------------- *)

\* the two runs of the concurrent specification; Spec uses run 1 only
Runs == {1, 2}

RecipientIds == {"r1", "r2"}

\* List[str] of length at most n, duplicates allowed
RecipientLists(n) == UNION {[1..k -> RecipientIds] : k \in 0..n}

\* MessageSendConfig carries plain ints: nothing bounds them from below
Delays == {-1, 0, DefaultDelay}

BatchDelays == {-1, DefaultBatchDelay}

MessageSendConfig(ids, delay, size, bdelay) ==
    [recipient_ids |-> ids, delay_between_messages |-> delay,
     batch_size |-> size, batch_delay |-> bdelay]

\* the jobs a single client may submit
Jobs ==
    {MessageSendConfig(ids, d, b, bd) :
        ids \in RecipientLists(MaxRecipients), d \in Delays,
        b \in (-1)..MaxBatch, bd \in BatchDelays}

\* the jobs two clients may submit side by side
ConcJobs ==
    {MessageSendConfig(ids, DefaultDelay, b, DefaultBatchDelay) :
        ids \in RecipientLists(MaxConcRecipients), b \in 0..2}

\* what `await client.post(...)` can end with: a response with a status code
\* and a JSON body that may carry the API's "error" object, or a raised
\* exception (timeout, connection error)
Response(code, err) == [raised |-> FALSE, status_code |-> code, error |-> err]

\* a request the API rejects: a non-success status and an "error" body
Rejected == Response(400, TRUE)

Raised == [raised |-> TRUE, status_code |-> 0, error |-> FALSE]

Responses ==
    {Response(HTTP_OK, FALSE), Response(HTTP_OK, TRUE),
     Rejected, Raised}

\* the outcomes drawn when two runs interleave
ConcResponses == {Response(HTTP_OK, FALSE), Rejected}

(* ------------------------------- state --------------------------------- *)

VARIABLES
    pc,          \* per run: "none" | "scheduled" | "post" | "sleep" | "done" | "error"
    config,      \* per run: the MessageSendConfig it was submitted with
    ack,         \* per run: the body send_messages returned, or NoAck
    index,       \* per run: enumerate()'s index of the current recipient
    successful,  \* per run: local counter
    failed,      \* per run: local counter
    sent,        \* per run: recipient ids of the requests issued, in order
    responses,   \* per run: what each issued request ended with, in order
    waits,       \* per run: the arguments of the asyncio.sleep calls, in order
    log          \* stdout: the lines printed

vars == <<pc, config, ack, index, successful, failed, sent, responses, waits, log>>

NoAck == [status |-> "none", message |-> <<>>, total_recipients |-> -1]

NoConfig == MessageSendConfig(<<>>, DefaultDelay, 1, DefaultBatchDelay)

Init ==
    /\ pc = [r \in Runs |-> "none"]
    /\ config = [r \in Runs |-> NoConfig]
    /\ ack = [r \in Runs |-> NoAck]
    /\ index = [r \in Runs |-> 0]
    /\ successful = [r \in Runs |-> 0]
    /\ failed = [r \in Runs |-> 0]
    /\ sent = [r \in Runs |-> <<>>]
    /\ responses = [r \in Runs |-> <<>>]
    /\ waits = [r \in Runs |-> <<>>]
    /\ log = <<>>

(* ----------------------------- operations ------------------------------ *)

\* Python's a % b for b # 0: the result has the sign of b
PyMod(a, b) == IF b > 0 THEN a % b ELSE -((-a) % (-b))

\* the body returned by send_messages
Acknowledgment(cfg) ==
    [status |-> "processing",
     message |-> <<"Started sending", Len(cfg.recipient_ids), "messages">>,
     total_recipients |-> Len(cfg.recipient_ids)]

\* a variant of RecipientAt that walks the list from its end
RecipientAtReversed(cfg, idx) == cfg.recipient_ids[Len(cfg.recipient_ids) - idx]

\* the recipient enumerate() yields at 0-based index idx
RecipientAt(cfg, idx) == cfg.recipient_ids[idx + 1]

\* `if response.status_code == 200: successful += 1`
CountSuccessful(n, resp) ==
    IF ~resp.raised /\ resp.status_code = HTTP_OK THEN n + 1 ELSE n

\* a variant of CountFailed without the inner `except Exception` branch:
\* a raised send is counted nowhere
CountFailedStatusOnly(n, resp) ==
    IF ~resp.raised /\ resp.status_code # HTTP_OK THEN n + 1 ELSE n

\* `else: failed += 1` and `except Exception: failed += 1`
CountFailed(n, resp) ==
    IF resp.raised \/ resp.status_code # HTTP_OK THEN n + 1 ELSE n

\* the delay logic after the send at 0-based index idx (batch_size # 0)
SleepDuration(cfg, idx) ==
    IF PyMod(idx + 1, cfg.batch_size) = 0 /\ (idx + 1) < Len(cfg.recipient_ids)
    THEN cfg.batch_delay
    ELSE cfg.delay_between_messages

\* the line the outer `except Exception as e` prints
ErrorLine(e) == [text |-> "Error in send_messages_task: ", args |-> <<e>>]

\* a variant of Submit that awaits send_messages_task instead of scheduling
\* it: the run goes ahead while the acknowledgment is still withheld
SubmitAwaiting(r, cfg) ==
    /\ pc[r] = "none"
    /\ pc' = [pc EXCEPT ![r] = "scheduled"]
    /\ config' = [config EXCEPT ![r] = cfg]
    /\ UNCHANGED <<ack, index, successful, failed, sent, responses, waits, log>>

\* POST /api/send-messages: the task is added to background_tasks and the
\* acknowledgment is returned; no field of config is validated
Submit(r, cfg) ==
    /\ pc[r] = "none"
    /\ pc' = [pc EXCEPT ![r] = "scheduled"]
    /\ config' = [config EXCEPT ![r] = cfg]
    /\ ack' = [ack EXCEPT ![r] = Acknowledgment(cfg)]
    /\ UNCHANGED <<index, successful, failed, sent, responses, waits, log>>

\* a variant of Start whose loop tests for exhaustion only after the pacing
\* sleep: an empty list still costs one wait
StartSleepFirst(r) ==
    /\ pc[r] = "scheduled"
    /\ successful' = [successful EXCEPT ![r] = 0]
    /\ failed' = [failed EXCEPT ![r] = 0]
    /\ IF config[r].recipient_ids = <<>>
       THEN /\ pc' = [pc EXCEPT ![r] = "sleep"]
            /\ waits' = [waits EXCEPT ![r] = Append(@, config[r].delay_between_messages)]
            /\ UNCHANGED <<index, sent>>
       ELSE /\ pc' = [pc EXCEPT ![r] = "post"]
            /\ index' = [index EXCEPT ![r] = 0]
            /\ sent' = [sent EXCEPT ![r] = Append(@, RecipientAt(config[r], 0))]
            /\ UNCHANGED waits
    /\ UNCHANGED <<config, ack, responses, log>>

\* the background task starts: counters are zeroed and the loop is entered;
\* an empty list leaves the loop at once, otherwise the first request goes out
Start(r) ==
    /\ pc[r] = "scheduled"
    /\ successful' = [successful EXCEPT ![r] = 0]
    /\ failed' = [failed EXCEPT ![r] = 0]
    /\ IF config[r].recipient_ids = <<>>
       THEN /\ pc' = [pc EXCEPT ![r] = "done"]
            /\ UNCHANGED <<index, sent>>
       ELSE /\ pc' = [pc EXCEPT ![r] = "post"]
            /\ index' = [index EXCEPT ![r] = 0]
            /\ sent' = [sent EXCEPT ![r] = Append(@, RecipientAt(config[r], 0))]
    /\ UNCHANGED <<config, ack, responses, waits, log>>

\* a variant of PostReturns without the inner try: a raised send goes
\* straight to the outer handler and ends the run
PostReturnsPropagating(r, resp) ==
    /\ pc[r] = "post"
    /\ responses' = [responses EXCEPT ![r] = Append(@, resp)]
    /\ successful' = [successful EXCEPT ![r] = CountSuccessful(@, resp)]
    /\ IF resp.raised
       THEN /\ pc' = [pc EXCEPT ![r] = "error"]
            /\ log' = Append(log, ErrorLine("RequestError"))
            /\ UNCHANGED <<failed, waits>>
       ELSE /\ failed' = [failed EXCEPT ![r] = CountFailed(@, resp)]
            /\ IF config[r].batch_size = 0
               THEN /\ pc' = [pc EXCEPT ![r] = "error"]
                    /\ log' = Append(log, ErrorLine("ZeroDivisionError"))
                    /\ UNCHANGED waits
               ELSE /\ pc' = [pc EXCEPT ![r] = "sleep"]
                    /\ waits' = [waits EXCEPT ![r] = Append(@, SleepDuration(config[r], index[r]))]
                    /\ UNCHANGED log
    /\ UNCHANGED <<config, ack, index, sent>>

\* a variant of PostReturns whose counters are module-level globals: every
\* run's counters move with every send
PostReturnsShared(r, resp) ==
    /\ pc[r] = "post"
    /\ responses' = [responses EXCEPT ![r] = Append(@, resp)]
    /\ successful' = [q \in Runs |-> CountSuccessful(successful[q], resp)]
    /\ failed' = [q \in Runs |-> CountFailed(failed[q], resp)]
    /\ IF config[r].batch_size = 0
       THEN /\ pc' = [pc EXCEPT ![r] = "error"]
            /\ log' = Append(log, ErrorLine("ZeroDivisionError"))
            /\ UNCHANGED waits
       ELSE /\ pc' = [pc EXCEPT ![r] = "sleep"]
            /\ waits' = [waits EXCEPT ![r] = Append(@, SleepDuration(config[r], index[r]))]
            /\ UNCHANGED log
    /\ UNCHANGED <<config, ack, index, sent>>

\* `await client.post(...)` ends with resp: one counter is incremented, then
\* the delay logic runs.  With batch_size = 0 the modulo raises
\* ZeroDivisionError, which the outer handler prints before the task returns.
PostReturns(r, resp) ==
    /\ pc[r] = "post"
    /\ responses' = [responses EXCEPT ![r] = Append(@, resp)]
    /\ successful' = [successful EXCEPT ![r] = CountSuccessful(@, resp)]
    /\ failed' = [failed EXCEPT ![r] = CountFailed(@, resp)]
    /\ IF config[r].batch_size = 0
       THEN /\ pc' = [pc EXCEPT ![r] = "error"]
            /\ log' = Append(log, ErrorLine("ZeroDivisionError"))
            /\ UNCHANGED waits
       ELSE /\ pc' = [pc EXCEPT ![r] = "sleep"]
            /\ waits' = [waits EXCEPT ![r] = Append(@, SleepDuration(config[r], index[r]))]
            /\ UNCHANGED log
    /\ UNCHANGED <<config, ack, index, sent>>

\* `await asyncio.sleep(...)` returns: the loop goes on to the next recipient
\* and issues its request, or is exhausted and the task returns
Wake(r) ==
    /\ pc[r] = "sleep"
    /\ IF index[r] + 1 < Len(config[r].recipient_ids)
       THEN /\ pc' = [pc EXCEPT ![r] = "post"]
            /\ index' = [index EXCEPT ![r] = @ + 1]
            /\ sent' = [sent EXCEPT ![r] = Append(@, RecipientAt(config[r], index[r] + 1))]
       ELSE /\ pc' = [pc EXCEPT ![r] = "done"]
            /\ UNCHANGED <<index, sent>>
    /\ UNCHANGED <<config, ack, successful, failed, responses, waits, log>>

\* a client posts one of `jobs` to /api/send-messages as run r; a run is
\* submitted once
Request(r, jobs) ==
    /\ pc[r] = "none"
    /\ \E cfg \in jobs : Submit(r, cfg)

\* one client, one job
Next ==
    \/ Request(1, Jobs)
    \/ Start(1)
    \/ \E resp \in Responses : PostReturns(1, resp)
    \/ Wake(1)

Spec == Init /\ [][Next]_vars

\* two jobs submitted side by side, their runs interleaving at the awaits
NextConcurrent ==
    \/ \E r \in Runs : Request(r, ConcJobs)
    \/ \E r \in Runs : Start(r)
    \/ \E r \in Runs, resp \in ConcResponses : PostReturns(r, resp)
    \/ \E r \in Runs : Wake(r)

SpecConcurrent == Init /\ [][NextConcurrent]_vars

(* ------------------------ vocabulary of the claims --------------------- *)
(* ValidJob, ExplicitSuccess and PacingPolicy are the specification's      *)
(* terms (spec.md sections 3, 4.1 and 4.2), the yardstick the code is held *)
(* against; the code has no counterpart of them.  The other definitions    *)
(* read the state of a run.                                                *)

\* a SendJob as the specification's data model types it: batch_size >= 1,
\* non-negative delays
ValidJob(cfg) ==
    /\ cfg.batch_size >= 1
    /\ cfg.delay_between_messages >= 0
    /\ cfg.batch_delay >= 0

Submitted(r) == pc[r] # "none"

\* send_messages_task has returned
Completed(r) == pc[r] \in {"done", "error"}

Total(r) == Len(config[r].recipient_ids)

\* a send that ended with a non-success status or a raised exception
FailureResponse(resp) == resp.raised \/ resp.status_code # HTTP_OK

\* a send that ended with a success status and no error payload
ExplicitSuccess(resp) ==
    ~resp.raised /\ resp.status_code = HTTP_OK /\ ~resp.error

NumResponses(r, P(_)) ==
    Cardinality({i \in DOMAIN responses[r] : P(responses[r][i])})

\* requests of run r issued and not yet returned
InFlight(r) == Len(sent[r]) - Len(responses[r])

\* the wait the specification prescribes after 1-based position i of total
PacingPolicy(cfg, i, total) ==
    IF i < total /\ i % cfg.batch_size = 0 THEN cfg.batch_delay
    ELSE IF i < total THEN cfg.delay_between_messages
    ELSE 0

(* ------------------------------- claims -------------------------------- *)

\* C1: when the run of a valid job has completed, its counters satisfy
\* successful + failed = len(recipient_ids), whatever the sends ended with.
C1_CountersSumToTotal ==
    \A r \in Runs :
        (Completed(r) /\ ValidJob(config[r]))
            => successful[r] + failed[r] = Total(r)

C1_Witness ==
    /\ pc[1] = "done"
    /\ ValidJob(config[1])
    /\ Total(1) >= 2
    /\ successful[1] >= 1
    /\ failed[1] >= 1

\* C2: a delivery failure (non-success status or raised exception) never
\* short-circuits the loop of a valid job: the failure is counted in failed
\* and nowhere else, it never takes the run to the outer handler, after a
\* failure at a position i < total the run is in the pacing wait of i or has
\* already issued the request for i+1, and a run that is done has attempted
\* every position.
C2_NoShortCircuit ==
    \A r \in Runs :
        (Submitted(r) /\ ValidJob(config[r])) =>
            /\ pc[r] # "error"
            /\ failed[r] = NumResponses(r, FailureResponse)
            /\ \A i \in DOMAIN responses[r] :
                  (FailureResponse(responses[r][i]) /\ i < Total(r)) =>
                      \/ Len(sent[r]) > i
                      \/ pc[r] = "sleep" /\ Len(waits[r]) = i
            /\ pc[r] = "done" => Len(sent[r]) = Total(r)

C2_Witness ==
    /\ pc[1] = "done"
    /\ ValidJob(config[1])
    /\ Total(1) = 3
    /\ responses[1][1] = Rejected
    /\ responses[1][2] = Raised
    /\ responses[1][3] = Response(HTTP_OK, FALSE)
    /\ Len(sent[1]) = 3
    /\ successful[1] = 1
    /\ failed[1] = 2

\* C3 (as claimed): for a valid job the wait after 1-based position i is
\* batch_delay when i % B = 0 and i < total, delay_between_messages when
\* i % B # 0 and i < total, and zero when i = total.
C3_WaitsFollowPolicy ==
    \A r \in Runs :
        (Submitted(r) /\ ValidJob(config[r])) =>
            \A i \in DOMAIN waits[r] :
                waits[r][i] = PacingPolicy(config[r], i, Total(r))

\* C4 (as claimed): a job with batch_size <= 0 or a negative delay never has
\* a delivery request issued for any of its recipients.
C4_InvalidJobSendsNothing ==
    \A r \in Runs :
        (Submitted(r) /\ ~ValidJob(config[r])) => sent[r] = <<>>

\* C5: within one run of a valid job the requests issued are the recipient
\* list itself, entry by entry and in order (duplicates included, nothing
\* retried, nothing skipped); at most one request is in flight; the request
\* for position i+1 is in flight only once the response for i has returned
\* and the wait for i, which is the one the pacing policy prescribes, is over.
C5_SequentialInOrder ==
    \A r \in Runs :
        (Submitted(r) /\ ValidJob(config[r])) =>
            /\ Len(sent[r]) <= Total(r)
            /\ \A i \in DOMAIN sent[r] : sent[r][i] = config[r].recipient_ids[i]
            /\ pc[r] = "done" => sent[r] = config[r].recipient_ids
            /\ InFlight(r) \in {0, 1}
            /\ InFlight(r) = 1 <=> pc[r] = "post"
            /\ InFlight(r) = 1 => Len(waits[r]) = Len(sent[r]) - 1
            /\ pc[r] = "sleep" => Len(waits[r]) = Len(sent[r])
            /\ \A i \in DOMAIN waits[r] :
                  i < Total(r) => waits[r][i] = PacingPolicy(config[r], i, Total(r))

C5_Witness ==
    /\ pc[1] = "done"
    /\ ValidJob(config[1])
    /\ config[1].batch_size = 2
    /\ config[1].recipient_ids = <<"r2", "r2", "r1">>
    /\ sent[1] = <<"r2", "r2", "r1">>
    /\ Len(waits[1]) = 3
    /\ waits[1][2] = DefaultBatchDelay

\* C6: send_messages answers {status: "processing", total_recipients:
\* len(recipient_ids)} without waiting for the run: nothing of a run happens
\* before its acknowledgment exists, and at the step that produces the
\* acknowledgment the run is only scheduled, with no request issued.
C6_AckBeforeRun ==
    /\ [](\A r \in Runs :
            Submitted(r) =>
                /\ ack[r].status = "processing"
                /\ ack[r].total_recipients = Len(config[r].recipient_ids))
    /\ [][\A r \in Runs :
            ack'[r] # ack[r] =>
                /\ ack[r] = NoAck
                /\ pc'[r] = "scheduled"
                /\ sent'[r] = <<>>
                /\ ~Completed(r)']_vars

C6_Witness ==
    /\ pc[1] = "scheduled"
    /\ ack[1].status = "processing"
    /\ ack[1].total_recipients = 3
    /\ Total(1) = 3
    /\ config[1].delay_between_messages = DefaultDelay
    /\ sent[1] = <<>>

\* C7 (as claimed): successful counts exactly the sends that ended with an
\* explicit success response; every other send (non-success status, raised
\* fault, response with an API error payload) is counted in failed; each send
\* increments exactly one counter by one.
C7_OnlyExplicitSuccessCounts ==
    \A r \in Runs :
        Submitted(r) =>
            /\ successful[r] = NumResponses(r, ExplicitSuccess)
            /\ successful[r] + failed[r] = Len(responses[r])

\* C8 (as claimed): for every run that has processed all its recipients
\* there is an emitted line carrying that run's final counts.
C8_ReportEmitted ==
    \A r \in Runs :
        pc[r] = "done" =>
            \E i \in DOMAIN log :
                /\ Len(log[i].args) = 3
                /\ log[i].args = <<Total(r), successful[r], failed[r]>>

\* C9: a job with an empty recipient list is accepted (acknowledged with
\* total_recipients = 0) and its run can only complete normally, with both
\* counters 0, no request issued and no pacing wait performed.
C9_EmptyJob ==
    \A r \in Runs :
        (Submitted(r) /\ config[r].recipient_ids = <<>>) =>
            /\ ack[r] = Acknowledgment(config[r])
            /\ ack[r].total_recipients = 0
            /\ pc[r] \in {"scheduled", "done"}
            /\ successful[r] = 0
            /\ failed[r] = 0
            /\ sent[r] = <<>>
            /\ responses[r] = <<>>
            /\ waits[r] = <<>>

C9_Witness ==
    /\ pc[1] = "done"
    /\ config[1].recipient_ids = <<>>
    /\ ack[1].total_recipients = 0
    /\ waits[1] = <<>>

\* C10: under every interleaving of two runs of valid jobs, each run's
\* counters, position and waits are determined by its own job and its own
\* send outcomes alone, each run sends to its own recipients in full, and
\* each finishes with successful + failed equal to its own recipient count.
C10_RunsIndependent ==
    \A r \in Runs :
        (Submitted(r) /\ ValidJob(config[r])) =>
            /\ successful[r] = Len(responses[r]) - NumResponses(r, FailureResponse)
            /\ failed[r] = NumResponses(r, FailureResponse)
            /\ \A i \in DOMAIN sent[r] : sent[r][i] = config[r].recipient_ids[i]
            /\ pc[r] \in {"post", "sleep"} => index[r] = Len(sent[r]) - 1
            /\ \A i \in DOMAIN waits[r] :
                  waits[r][i] = SleepDuration(config[r], i - 1)
            /\ pc[r] # "error"
            /\ pc[r] = "done" =>
                  /\ sent[r] = config[r].recipient_ids
                  /\ successful[r] + failed[r] = Total(r)

C10_Witness ==
    /\ pc[1] = "done"
    /\ pc[2] = "done"
    /\ config[1] = config[2]
    /\ Total(1) = 2
    /\ sent[1] = sent[2]
    /\ successful[1] = 2
    /\ failed[2] = 2

====
